---- MODULE Spec2Model ----
(***************************************************************************)
(* A model of the VLR live-match service (9nan/VCTapi):                    *)
(*   api/async_client.py   VlrClient: session, TTL cache, _make_request    *)
(*   api/async_scraper.py  AsyncVlrScraper: listing / per-match pipeline   *)
(*   routers/vlr_router.py GET /matches/live, GET /matches/{match_id}      *)
(*                                                                         *)
(* The specifications share the operators translated from the code:      *)
(*   SpecCache  the cache alone, driven by arbitrary put / get / tick      *)
(*   SpecFetch  one _make_request call, attempt by attempt, sleeps shown   *)
(*   Spec       concurrent GET /matches/live requests on the global client *)
(*   SpecMatch  concurrent GET /matches/{match_id} requests                *)
(*   SpecFair   the same with every attempt in flight answered in the end  *)
(*   SpecFlag   the flag class transform applied to one class string       *)
(*   SpecDetail _get_match_details applied to one fetched detail page      *)
(*   SpecStats  utils/performance.py: concurrent calls under track_request *)
(*   SpecWatch  Spec with the fetches of request 1 counted and the listing *)
(*              fetches ranked in the order they complete                  *)
(*   SpecFrame  tracked calls interleaved with reads and writes of the     *)
(*              cache                                                      *)
(***************************************************************************)
EXTENDS Integers, Sequences, FiniteSets, TLC

VARIABLES
    clock,      \* datetime.now(), in seconds
    cache,      \* VlrClient._cache
    session,    \* VlrClient.session: "none" | "open" | "closed"
    got,        \* SpecCache: key and value of the get just made
    lastPut,    \* SpecCache: per key, payload and time of the latest put
    probe,      \* SpecFetch: the _make_request call under observation
    plog,       \* SpecFetch: statuses answered to that call, in order
    pc,         \* per request: "idle" | "listing" | "gather" | "direct"
                \* | "done"
    listing,    \* per request: the _make_request call for the listing page
    detail,     \* per request: per live match, the call for its detail page
    results,    \* per request: per live match, what its task returns
    order,      \* per request: the tasks in the order they completed
    agg,        \* per request: what client.get_live_matches() returned
    response,   \* per request: what the route handler returned
    match_id,   \* per request: the path parameter (empty: /matches/live)
    direct,     \* per request: the call for the page of the match itself
    lookup,     \* per request: what client.get_match_by_id() returned
    flagCls,    \* SpecFlag: the class attribute of a .flag element
    flagRes,    \* SpecFlag: what the transform made of it
    fetched,    \* SpecDetail: how the _make_request call for the page ended
    parsed,     \* SpecDetail: what _get_match_details returned
    performance_stats,  \* the global dict of utils/performance.py
    tracked,    \* SpecStats: per tracked call, where its wrapper stands
    elapsed,    \* SpecStats: sum of the execution_time of the calls that
                \* returned since the counters were last zero
    wasReset,   \* SpecStats: reset_performance_stats has been called
    tries,      \* SpecWatch: session.get calls made for request 1
    fetches,    \* SpecWatch: _make_request calls made for request 1
    fetch_no,   \* SpecWatch: per request, the rank of its listing fetch
                \* among the listing fetches completed (0: none yet)
    cache_from  \* SpecWatch: the rank of the listing fetch that the entry
                \* of "live_matches" derives from (0: no entry)

cacheGhost == <<got, lastPut>>
probeVars == <<probe, plog>>
reqVars == <<pc, listing, detail, results, order, agg, response,
             match_id, direct, lookup>>
flagVars == <<flagCls, flagRes>>
parseVars == <<fetched, parsed>>
statVars == <<performance_stats, tracked, elapsed, wasReset>>
unitVars == <<flagVars, parseVars, statVars>>
watchVars == <<tries, fetches, fetch_no, cache_from>>
sideVars == <<unitVars, watchVars>>
vars == <<clock, cache, session, got, lastPut, probe, plog,
          pc, listing, detail, results, order, agg, response,
          match_id, direct, lookup,
          flagCls, flagRes, fetched, parsed,
          performance_stats, tracked, elapsed, wasReset,
          tries, fetches, fetch_no, cache_from>>

(* ------------------------------ bounds -------------------------------- *)
\* number of HTTP requests served by the process (they run concurrently)
NumReqs == 2
\* largest number of match anchors on a listing page
MaxMatches == 2
\* the clock stops advancing here (seconds)
MaxClock == 40
\* number of distinct payloads the cache-only specification writes
NumPayloads == 2
\* largest number of mod- tokens in the class of a flag element
MaxTokens == 3
\* largest number of images in the header of a detail page
MaxImgs == 2
\* number of calls of tracked functions
NumCalls == 3
\* longest execution_time of a tracked call (whole seconds)
MaxDur == 2

(* ------------------------- program constants -------------------------- *)
\* VlrClient.__init__: self._cache_ttl = 30
cache_ttl == 30
\* _make_request(self, url, max_retries: int = 3)
max_retries == 3

\* Python's None (a record, so that it compares with every dict)
None == [none |-> TRUE]

(* ============================== Cache ================================= *)
\* The dict self._cache is a function whose DOMAIN is the set of keys present.
\* An entry is {'data': ..., 'timestamp': datetime}.  A datetime object is
\* always truthy, so `if not cache_time` is false for every stored entry.

\* _is_cache_valid with the comparison turned into <=
is_cache_valid_le(c, key, now) ==
    /\ key \in DOMAIN c
    /\ now - c[key].timestamp <= cache_ttl

\* VlrClient._is_cache_valid
is_cache_valid(c, key, now) ==
    /\ key \in DOMAIN c
    /\ now - c[key].timestamp < cache_ttl

\* the validity test of _get_from_cache negated
get_from_cache_stale(c, key, now) ==
    IF key \in DOMAIN c /\ ~is_cache_valid(c, key, now)
    THEN c[key].data ELSE None

\* VlrClient._get_from_cache
get_from_cache(c, key, now) ==
    IF is_cache_valid(c, key, now) THEN c[key].data ELSE None

\* the entry is stored under a key of its own instead of the key given
set_cache_own_key(c, key, data, now) ==
    [k \in (DOMAIN c) \cup {"match"} |->
        IF k = "match" THEN [data |-> data, timestamp |-> now] ELSE c[k]]

\* VlrClient._set_cache
set_cache(c, key, data, now) ==
    [k \in (DOMAIN c) \cup {key} |->
        IF k = key THEN [data |-> data, timestamp |-> now] ELSE c[k]]

(* ============================= Session ================================ *)
\* VlrClient.__aenter__: a new ClientSession replaces whatever was there
aenter(sess) == "open"

\* VlrClient.__aexit__: closes the current self.session, if any; the
\* attribute keeps referring to the closed session
aexit(sess) == IF sess # "none" THEN "closed" ELSE sess

(* ============================= Fetcher ================================ *)
\* What one HTTP attempt can end with: a status, or an exception of
\* session.get (asyncio.TimeoutError, aiohttp.ClientError).
Outcomes == {"200", "429", "500", "timeout", "client_error"}

\* A _make_request call: the loop variable `attempt`, where the coroutine is
\* suspended ("inflight": in session.get, "sleeping": in asyncio.sleep), the
\* seconds it sleeps in this iteration, and what it returned ("done") unless
\* it raised ("raised").
NoCall == [state |-> "idle", attempt |-> 0, wait |-> 0, result |-> None]
\* a finished call: its frame, and the loop variable with it, is gone
Raised == [state |-> "raised", attempt |-> 0, wait |-> 0, result |-> None]
Returned(v) == [state |-> "done", attempt |-> 0, wait |-> 0, result |-> v]

\* self.session.get(url) of attempt k: aiohttp raises RuntimeError("Session
\* is closed") on a closed session, which no except clause of the loop takes
session_get(k, sess) ==
    IF sess = "open"
    THEN [state |-> "inflight", attempt |-> k, wait |-> 0, result |-> None]
    ELSE Raised

\* _make_request up to its first suspension
make_request(sess) ==
    IF sess = "none" THEN Raised ELSE session_get(0, sess)

\* the loop has no bound: after the last attempt it starts over
next_attempt_forever(t, sess) ==
    session_get((t.attempt + 1) % max_retries, sess)

\* the loop goes one attempt further than max_retries
next_attempt_extra(t, sess) ==
    IF t.attempt + 1 < max_retries + 1
    THEN session_get(t.attempt + 1, sess)
    ELSE Returned(None)

\* the end of one loop iteration: the next one, or the final return None
next_attempt(t, sess) ==
    IF t.attempt + 1 < max_retries
    THEN session_get(t.attempt + 1, sess)
    ELSE Returned(None)

\* seconds slept in the iteration of attempt k answered with outcome o:
\* the sleep of the 429 branch, then the sleep after the try statement
backoff(k, o) ==
    (IF o = "429" THEN 2^k ELSE 0) + (IF k < max_retries - 1 THEN 2^k ELSE 0)

\* attempt answered: a timeout is not caught
attempt_done_nocatch(t, o, body, sess) ==
    IF o = "200" THEN Returned(body)
    ELSE IF o = "timeout" THEN Raised
    ELSE IF backoff(t.attempt, o) > 0
    THEN [t EXCEPT !.state = "sleeping", !.wait = backoff(t.attempt, o)]
    ELSE next_attempt(t, sess)

\* the attempt in flight is answered with o (body: the text of a 200)
attempt_done(t, o, body, sess) ==
    IF o = "200" THEN Returned(body)
    ELSE IF backoff(t.attempt, o) > 0
    THEN [t EXCEPT !.state = "sleeping", !.wait = backoff(t.attempt, o)]
    ELSE next_attempt(t, sess)

\* the sleep ends
wake(t, sess) == next_attempt([t EXCEPT !.wait = 0], sess)

(* ============================ Extractor =============================== *)
\* Texts that the code cuts into pieces are sequences of characters.
flag_us == <<"f","l","a","g"," ","m","o","d","-","u","s">>
flag_kr == <<"f","l","a","g"," ","m","o","d","-","k","r">>

RECURSIVE Join(_)
\* the string of a sequence of characters
Join(s) == IF s = <<>> THEN "" ELSE Head(s) \o Join(Tail(s))

\* "https://www.vlr.gg/"
base_url ==
    <<"h","t","t","p","s",":","/","/","w","w","w",".","v","l","r",".","g","g",
      "/">>

\* Python's `sub in s` on texts
contains(s, sub) ==
    \E k \in 1..(Len(s) - Len(sub) + 1) :
        SubSeq(s, k, k + Len(sub) - 1) = sub

RECURSIVE replace(_, _, _)
\* str.replace(old, new), old not empty: leftmost matches, not overlapping
replace(s, old, new) ==
    IF Len(s) < Len(old) THEN s
    ELSE IF SubSeq(s, 1, Len(old)) = old
         THEN new \o replace(SubSeq(s, Len(old) + 1, Len(s)), old, new)
         ELSE <<s[1]>> \o replace(Tail(s), old, new)

\* the first replacement without the leading blank: .replace("mod-", "")
flag_transform_mod(cls) ==
    replace(replace(cls, <<"m","o","d","-">>, <<>>), <<"1","6">>, <<"_">>)

\* .replace(" mod-", "").replace("16", "_") on the class of the flag element
flag_transform(cls) ==
    replace(replace(cls, <<" ","m","o","d","-">>, <<>>), <<"1","6">>, <<"_">>)

Pad2(n) == IF n < 10 THEN "0" \o ToString(n) ELSE ToString(n)
\* datetime.fromtimestamp(e, tz=utc).strftime("%Y-%m-%d %H:%M:%S"), for an
\* epoch e within the first day
strftime_utc(e) ==
    "1970-01-01 " \o Pad2(e \div 3600) \o ":" \o Pad2((e % 3600) \div 60)
                  \o ":" \o Pad2(e % 60)

\* The i-th anchor of a listing page, of one of three kinds: "live" (with the
\* .h-match-eta.mod-live marker), "broken" (live, but with one .h-match-team
\* element only) and "upcoming" (not live).
AnchorKinds == {"live", "broken", "upcoming"}
TeamElement(i, j) ==
    [name |-> "team" \o ToString(i) \o (IF j = 1 THEN "a" ELSE "b"),
     flag_class |-> IF j = 1 THEN flag_us ELSE flag_kr,
     score |-> ToString(i + j),
     \* team.css(".h-match-team-rounds .mod-ct") and (... .mod-t): lists
     rounds_ct |-> <<ToString(i)>>,
     rounds_t |-> <<>>]
Anchor(i, kind) ==
    \* href="/5<i>/m": the number of the match, then its slug
    [href |-> <<"/", "5", ToString(i), "/", "m">>,
     live |-> kind # "upcoming",
     teams |-> IF kind = "broken" THEN <<TeamElement(i, 1)>>
               ELSE <<TeamElement(i, 1), TeamElement(i, 2)>>,
     event |-> "event" \o ToString(i),
     series |-> "series" \o ToString(i),
     utc_ts |-> 3600 * i + 61]

\* the listing pages: up to MaxMatches anchors, each of any kind
ListingPages ==
    UNION {{[anchors |-> [i \in 1..n |-> Anchor(i, f[i])]] :
              f \in [1..n -> AnchorKinds]} : n \in 0..MaxMatches}

\* the text of a map tab: the number of the map, then its name
map_2Ascent == <<"2","A","s","c","e","n","t">>

\* the detail pages: two logos, with or without the tab of the map that is
\* both active and live (map_tab: what css_first finds)
DetailPages ==
    {[imgs |-> <<"//cdn/a.png", "//cdn/b.png">>, map_tab |-> tab] :
        tab \in {<<>>, <<map_2Ascent>>}}

EmptyDict == [k \in {} |-> ""]
\* `if x` for a dict or None
truthy(x) == x # None /\ DOMAIN x # {}

MatchSummaryFields ==
    {"team1", "team2", "flag1", "flag2", "team1_logo", "team2_logo",
     "score1", "score2", "team1_round_ct", "team1_round_t",
     "team2_round_ct", "team2_round_t", "map_number", "current_map",
     "time_until_match", "match_event", "match_series", "unix_timestamp",
     "match_page"}

\* the listing-row part of _process_live_match_optimized: the base
\* match_data, or {} when the row raises (teams[1] with one team: IndexError)
process_row(a) ==
    LET rt(j, side) ==
            IF Len(a.teams) >= j
            THEN (IF side = "ct"
                  THEN (IF a.teams[j].rounds_ct # <<>>
                        THEN a.teams[j].rounds_ct[1] ELSE "N/A")
                  ELSE (IF a.teams[j].rounds_t # <<>>
                        THEN a.teams[j].rounds_t[1] ELSE "N/A"))
            ELSE "N/A"
    IN  IF Len(a.teams) < 2 THEN EmptyDict
        ELSE [team1 |-> a.teams[1].name,
              team2 |-> a.teams[2].name,
              flag1 |-> flag_transform(a.teams[1].flag_class),
              flag2 |-> flag_transform(a.teams[2].flag_class),
              score1 |-> a.teams[1].score,
              score2 |-> a.teams[2].score,
              team1_round_ct |-> rt(1, "ct"),
              team1_round_t |-> rt(1, "t"),
              team2_round_ct |-> rt(2, "ct"),
              team2_round_t |-> rt(2, "t"),
              time_until_match |-> "LIVE",
              match_event |-> a.event,
              match_series |-> a.series,
              unix_timestamp |-> strftime_utc(a.utc_ts),
              match_page |-> base_url \o a.href,
              team1_logo |-> "",
              team2_logo |-> "",
              map_number |-> "Unknown",
              current_map |-> "Unknown"]

\* VlrClient._get_match_details, given how its _make_request call ended:
\* <<team_logos, current_map, map_number>>.  Every exception ends in the
\* except clause: the RuntimeError of a closed session, and the NameError of
\* re.sub (the module does not import re) when the map tab is found.
get_match_details(t) ==
    IF t.state = "raised" \/ t.result = None
    THEN <<<<>>, "Unknown", "Unknown">>
    ELSE IF t.result.map_tab # <<>>
    THEN <<<<>>, "Unknown", "Unknown">>
    ELSE <<[k \in 1..Len(t.result.imgs) |-> "https:" \o t.result.imgs[k]],
           "Unknown", "Unknown">>

\* match_data.update({...}) with the details
merge_details(base, d) ==
    [base EXCEPT !.team1_logo = IF Len(d[1]) > 0 THEN d[1][1] ELSE "",
                 !.team2_logo = IF Len(d[1]) > 1 THEN d[1][2] ELSE "",
                 !.map_number = d[3],
                 !.current_map = d[2]]

(* ------------- inputs of the extractor taken on its own --------------- *)
RECURSIVE concat(_)
\* the texts of a list, joined
concat(ss) == IF ss = <<>> THEN <<>> ELSE Head(ss) \o concat(Tail(ss))

\* the modifier tokens of a flag element's class, each with its separator
FlagTokens ==
    {<<" ","m","o","d","-","u","s">>, <<" ","m","o","d","-","k","r">>,
     <<" ","m","o","d","-","1","6">>, <<" ","m","o","d","-","u","n">>}
\* class="flag mod-.. mod-..": "flag", then up to MaxTokens tokens
FlagClasses ==
    UNION {{<<"f","l","a","g">> \o concat(f) : f \in [1..n -> FlagTokens]} :
              n \in 0..MaxTokens}

\* src attributes of the header images: without and with a scheme
SchemelessSrcs == {"//cdn/a.png"}
SchemedSrcs == {"https://cdn/b.png", "http://cdn/c.png"}
ImgLists ==
    UNION {[1..n -> SchemelessSrcs \cup SchemedSrcs] : n \in 0..MaxImgs}
\* what css_first finds for the active and live map tab: nothing, or a tab
\* whose text has digits and a name, a name only, or two digits and a name
MapTabs ==
    {<<>>, <<map_2Ascent>>, <<<<"A","s","c","e","n","t">>>>,
     <<<<"1","2","B","i","n","d">>>>}
\* the ways the fetch of a detail page ends
DetailFetches ==
    {Raised, Returned(None)} \cup
    {Returned([imgs |-> s, map_tab |-> tab]) : s \in ImgLists, tab \in MapTabs}

(* ============================ Aggregator ============================== *)
\* the filter on the live marker left out
live_matches_unfiltered(page) == page.anchors

\* live_matches = [match for match in matches if match.css_first(...)]
live_matches(page) == SelectSeq(page.anchors, LAMBDA a: a.live)

no_game_match ==
    [team1 |-> "", team2 |-> "", flag1 |-> "", flag2 |-> "",
     score1 |-> "", score2 |-> "",
     team1_round_ct |-> "", team1_round_t |-> "",
     team2_round_ct |-> "", team2_round_t |-> "",
     time_until_match |-> "", match_event |-> "", match_series |-> "",
     unix_timestamp |-> "", match_page |-> <<>>,
     team1_logo |-> "", team2_logo |-> "",
     map_number |-> "", current_map |-> "",
     klurgecustom |-> "no game is live"]

Success(data) == [status |-> "success", data |-> data]
Error(msg) == [status |-> "error", message |-> msg]

\* the exception goes on to the caller instead of becoming an envelope
caught_reraise(msg) == [exception |-> msg]

\* except Exception as e: return {"status": "error", "message": str(e)}
caught(msg) == Error(msg)

\* d.get('status') == s
has_status(d, s) == "status" \in DOMAIN d /\ d.status = s

\* the results come back in the order the tasks completed
gather_by_completion(res, ord) == [k \in 1..Len(ord) |-> res[ord[k]]]

\* asyncio.gather(*tasks): the results in the order of the tasks, whatever
\* the order `ord` in which they completed
gather(res, ord) == res

\* one empty result empties the batch
valid_results_all_or_nothing(res) ==
    IF \E k \in 1..Len(res) : DOMAIN res[k] = {} THEN <<>> ELSE res

\* [r for r in results if isinstance(r, dict) and r]
valid_results(res) == SelectSeq(res, LAMBDA m: DOMAIN m # {})

\* the key is numbered with enumerate's index instead of index + 1
annotate_index(valid) ==
    [idx \in 1..Len(valid) |->
        LET m == valid[idx]
            key == IF idx > 1 THEN "klurgecustom" \o ToString(idx - 1)
                   ELSE "klurgecustom"
            val == m.team1 \o " " \o m.score1 \o " : "
                   \o m.team2 \o " " \o m.score2
        IN  [f \in (DOMAIN m) \cup {key} |-> IF f = key THEN val ELSE m[f]]]

\* the klurgecustom annotation of the idx-th valid result (idx from 1)
annotate(valid) ==
    [idx \in 1..Len(valid) |->
        LET m == valid[idx]
            key == IF idx > 1 THEN "klurgecustom" \o ToString(idx)
                   ELSE "klurgecustom"
            val == m.team1 \o " " \o m.score1 \o " : "
                   \o m.team2 \o " " \o m.score2
        IN  [f \in (DOMAIN m) \cup {key} |-> IF f = key THEN val ELSE m[f]]]

\* get_live_matches_optimized after the gather
assemble(res, ord) == Success(annotate(valid_results(gather(res, ord))))

(* --------------------------- match lookup ----------------------------- *)
\* the loop keeps the last record that holds the id, not the first
find_match_last(live, id) ==
    IF has_status(live, "success")
    THEN LET H == {k \in 1..Len(live.data) :
                      contains(live.data[k].match_page, id)}
         IN  IF H = {} THEN 0 ELSE CHOOSE k \in H : \A j \in H : j <= k
    ELSE 0

RECURSIVE first_match(_, _, _)
\* for match in live_matches.get('data', []):
\*     if match_id in match.get('match_page', ''): return ...
\* the position of the record returned, from position k on; 0 when the loop
\* ends without returning
first_match(data, id, k) ==
    IF k > Len(data) THEN 0
    ELSE IF contains(data[k].match_page, id) THEN k
    ELSE first_match(data, id, k + 1)

\* get_match_by_id_optimized, given what client.get_live_matches() returned:
\* the position of the live record it returns, 0 when it goes on to
\* _get_match_directly
find_match(live, id) ==
    IF has_status(live, "success") THEN first_match(live.data, id, 1)
    ELSE 0

\* the pages of a match: what the three selectors of _get_match_directly
\* find (.team-name, .score and img under .match-header-vs)
DirectPages ==
    {[team_names |-> <<>>, scores |-> <<>>, imgs |-> <<>>],
     [team_names |-> <<"Alpha">>, scores |-> <<"1", "0">>,
      imgs |-> <<"//cdn/a.png">>],
     [team_names |-> <<"Alpha", "Beta">>, scores |-> <<"1", "0">>,
      imgs |-> <<"//cdn/a.png", "https://cdn/b.png">>]}

\* match_data holds only what is found on the page
direct_data_bare(page, url) ==
    IF Len(page.team_names) >= 2
    THEN [team1 |-> page.team_names[1], team2 |-> page.team_names[2],
          match_page |-> url]
    ELSE [match_page |-> url]

\* match_data of _get_match_directly for a fetched page
direct_data(page, url) ==
    LET two(xs) == Len(xs) >= 2
    IN  [team1 |-> IF two(page.team_names) THEN page.team_names[1]
                   ELSE "Unknown",
         team2 |-> IF two(page.team_names) THEN page.team_names[2]
                   ELSE "Unknown",
         flag1 |-> "", flag2 |-> "",
         score1 |-> IF two(page.scores) THEN page.scores[1] ELSE "0",
         score2 |-> IF two(page.scores) THEN page.scores[2] ELSE "0",
         team1_logo |-> IF two(page.imgs) THEN "https:" \o page.imgs[1]
                        ELSE "",
         team2_logo |-> IF two(page.imgs) THEN "https:" \o page.imgs[2]
                        ELSE "",
         team1_round_ct |-> "N/A", team1_round_t |-> "N/A",
         team2_round_ct |-> "N/A", team2_round_t |-> "N/A",
         map_number |-> "Unknown", current_map |-> "Unknown",
         time_until_match |-> "Unknown", match_event |-> "Unknown",
         match_series |-> "Unknown", unix_timestamp |-> "",
         match_page |-> url]

\* _get_match_directly, given how its _make_request call ended (msg: str(e)
\* of what the call raised)
get_match_directly(t, id, msg) ==
    IF t.state = "raised" THEN caught(msg)
    ELSE IF t.result = None
    THEN Error("Match " \o Join(id) \o " not found")
    ELSE Success(direct_data(t.result, base_url \o id))

(* ============================== Router ================================ *)
\* raise HTTPException(status_code=..., detail=...)
HTTPException(code, text) == [status_code |-> code, detail |-> text]

\* the lookup's result is returned whatever its status
route_match_any(result) == result

\* GET /matches/{match_id}, given what client.get_match_by_id() returned
route_match(result) ==
    IF has_status(result, "error")
    THEN HTTPException(404, IF "message" \in DOMAIN result
                            THEN result.message ELSE "Match not found")
    ELSE result


\* GET /matches/live, given what client.get_live_matches() returned
route_live(result) ==
    IF ~truthy(result) \/ ~("data" \in DOMAIN result /\ result.data # <<>>)
    THEN [status |-> "success",
          message |-> "No live matches currently available.",
          data |-> <<>>]
    ELSE result

(* ================= SpecFetch: one _make_request call ================== *)
\* text of a page, for the call under observation
SomeBody == [html |-> "page"]

InitFetch ==
    /\ session = "none"
    /\ probe = NoCall
    /\ plog = <<>>

\* a user of the client enters its context
ProbeEnter ==
    /\ session' = aenter(session)
    /\ UNCHANGED <<clock, cache, cacheGhost, probeVars, reqVars, sideVars>>

\* a user of the client leaves its context
ProbeExit ==
    /\ session # "none"
    /\ session' = aexit(session)
    /\ UNCHANGED <<clock, cache, cacheGhost, probeVars, reqVars, sideVars>>

\* client._make_request(url) is called
ProbeCall ==
    /\ probe.state \in {"idle", "done", "raised"}
    /\ probe' = make_request(session)
    /\ plog' = <<>>
    /\ UNCHANGED <<clock, cache, cacheGhost, session, reqVars, sideVars>>

\* the attempt in flight is answered
ProbeAnswer(o) ==
    /\ probe.state = "inflight"
    /\ probe' = attempt_done(probe, o, SomeBody, session)
    /\ plog' = Append(plog, o)
    /\ UNCHANGED <<clock, cache, cacheGhost, session, reqVars, sideVars>>

\* the sleep of the call ends
ProbeWake ==
    /\ probe.state = "sleeping"
    /\ probe' = wake(probe, session)
    /\ UNCHANGED <<clock, cache, cacheGhost, session, plog, reqVars, sideVars>>

(* ======================= SpecCache: the cache alone =================== *)
CacheKeys == {"live_matches", "other_key"}
Payload(i) == [status |-> "success", n |-> i]
NoGet == [key |-> "", val |-> None]

InitCache ==
    /\ clock = 0
    /\ cache = [k \in {} |-> None]
    /\ got = NoGet
    /\ lastPut = [k \in {} |-> None]

\* put(key, payload)
CachePut(key, i) ==
    /\ cache' = set_cache(cache, key, Payload(i), clock)
    /\ lastPut' = [k \in (DOMAIN lastPut) \cup {key} |->
                      IF k = key THEN [data |-> Payload(i), at |-> clock]
                      ELSE lastPut[k]]
    /\ got' = NoGet
    /\ UNCHANGED <<clock, session, probeVars, reqVars, sideVars>>

\* get(key)
CacheGet(key) ==
    /\ got' = [key |-> key, val |-> get_from_cache(cache, key, clock)]
    /\ UNCHANGED <<clock, cache, lastPut, session, probeVars, reqVars, sideVars>>

\* one second passes
Tick ==
    /\ clock + 1 <= MaxClock
    /\ clock' = clock + 1
    /\ got' = NoGet
    /\ UNCHANGED <<cache, lastPut, session, probeVars, reqVars, sideVars>>

(* ============ Spec: concurrent GET /matches/live requests ============= *)
Reqs == 1..NumReqs

\* a call that has used up its attempts is made again by its caller
iteration_retry(t, o, body, sess) ==
    LET a == attempt_done(t, o, body, sess)
        b == IF a.state = "sleeping" THEN wake(a, sess) ELSE a
    IN  IF b.state = "done" /\ b.result = None THEN make_request(sess)
        ELSE b

\* one loop iteration of _make_request, from the answer of the attempt in
\* flight to the next suspension in session.get (the sleep in between is
\* shown in SpecFetch only)
iteration(t, o, body, sess) ==
    LET a == attempt_done(t, o, body, sess)
    IN  IF a.state = "sleeping" THEN wake(a, sess) ELSE a

suspended(t) == t.state \in {"inflight", "sleeping"}

\* str(e) of the RuntimeError that _make_request lets through
runtime_error(sess) ==
    IF sess = "none"
    THEN "Session not initialized. Use async context manager."
    ELSE "Session is closed"

\* one _process_live_match_optimized task, run up to its first suspension:
\* its _make_request call and the match_data it holds
start_task(a, sess) ==
    LET base == process_row(a)
        t == make_request(sess)
    IN  IF DOMAIN base = {} THEN [call |-> NoCall, res |-> EmptyDict]
        ELSE IF suspended(t) THEN [call |-> t, res |-> base]
        ELSE [call |-> t, res |-> merge_details(base, get_match_details(t))]

\* the indices of the finished tasks among `calls`, lowest first
RECURSIVE finished_in_order(_, _)
finished_in_order(calls, k) ==
    IF k > Len(calls) THEN <<>>
    ELSE (IF suspended(calls[k]) THEN <<>> ELSE <<k>>)
         \o finished_in_order(calls, k + 1)

\* get_match_by_id has returned res: the handler answers and leaves the
\* client context
Conclude(r, res, sess) ==
    /\ lookup' = [lookup EXCEPT ![r] = res]
    /\ response' = [response EXCEPT ![r] = route_match(res)]
    /\ session' = aexit(sess)
    /\ pc' = [pc EXCEPT ![r] = "done"]

\* client.get_live_matches() has returned env to its caller.  The handler
\* of /matches/live (id empty) answers and leaves the client context;
\* get_match_by_id_optimized returns the live record that holds the id or
\* goes on to _get_match_directly, up to its first suspension
Answer(r, id, env, sess) ==
    /\ agg' = [agg EXCEPT ![r] = env]
    /\ IF id = <<>>
       THEN /\ response' = [response EXCEPT ![r] = route_live(env)]
            /\ session' = aexit(sess)
            /\ pc' = [pc EXCEPT ![r] = "done"]
            /\ UNCHANGED <<direct, lookup>>
       ELSE LET k == find_match(env, id)
                t == make_request(sess)
            IN  IF k > 0
                THEN /\ Conclude(r, Success(env.data[k]), sess)
                     /\ UNCHANGED direct
                ELSE IF suspended(t)
                THEN /\ direct' = [direct EXCEPT ![r] = t]
                     /\ session' = sess
                     /\ pc' = [pc EXCEPT ![r] = "direct"]
                     /\ UNCHANGED <<lookup, response>>
                ELSE /\ direct' = [direct EXCEPT ![r] = t]
                     /\ Conclude(r, get_match_directly(
                                        t, id, runtime_error(sess)), sess)

\* the tail of client.get_live_matches once get_live_matches_optimized has
\* returned env: the result is cached and goes to the caller
Finish(r, env) ==
    /\ cache' = set_cache(cache, "live_matches", env, clock)
    /\ Answer(r, match_id[r], env, session)

\* A request arrives (id empty: GET /matches/live, otherwise GET
\* /matches/{id}): the handler enters the client context and, directly or
\* through get_match_by_id, calls client.get_live_matches(), which answers
\* from the cache or starts the listing fetch
ArriveStep(r, id) ==
    /\ pc[r] = "idle"
    \* requests are numbered in the order they arrive
    /\ \A q \in Reqs : q < r => pc[q] # "idle"
    /\ match_id' = [match_id EXCEPT ![r] = id]
    /\ LET sess == aenter(session)
           cached == get_from_cache(cache, "live_matches", clock)
           t == make_request(sess)
       IN  IF truthy(cached)
           THEN /\ Answer(r, id, cached, sess)
                /\ UNCHANGED <<cache, listing>>
           ELSE IF suspended(t)
           THEN /\ listing' = [listing EXCEPT ![r] = t]
                /\ session' = sess
                /\ pc' = [pc EXCEPT ![r] = "listing"]
                /\ UNCHANGED <<cache, agg, response, direct, lookup>>
           ELSE /\ listing' = [listing EXCEPT ![r] = t]
                /\ cache' = set_cache(cache, "live_matches",
                                      caught(runtime_error(sess)), clock)
                /\ Answer(r, id, caught(runtime_error(sess)), sess)
    /\ UNCHANGED <<clock, cacheGhost, probeVars, unitVars,
                   detail, results, order>>

Arrive(r, id) == ArriveStep(r, id) /\ UNCHANGED watchVars

\* GET /matches/live arrives
StartLive(r) == Arrive(r, <<>>)

\* GET /matches/{id} arrives
StartMatch(r, id) == Arrive(r, id)

\* the listing attempt in flight is answered; on the last answer
\* get_live_matches_optimized goes on to the sentinel, to the error
\* envelope, or to the per-match tasks
ListingStep(r, o, page) ==
    /\ pc[r] = "listing"
    /\ listing[r].state = "inflight"
    /\ LET t == iteration(listing[r], o, page, session)
           lm == live_matches(t.result)
           tasks == [i \in 1..Len(lm) |-> start_task(lm[i], session)]
           calls == [i \in 1..Len(lm) |-> tasks[i].call]
           res == [i \in 1..Len(lm) |-> tasks[i].res]
           ord == finished_in_order(calls, 1)
       IN  /\ listing' = [listing EXCEPT ![r] = t]
           /\ IF suspended(t)
              THEN UNCHANGED <<cache, session, pc, detail, results, order,
                               agg, response, direct, lookup>>
              ELSE IF t.state = "raised"
              THEN /\ Finish(r, caught(runtime_error(session)))
                   /\ UNCHANGED <<detail, results, order>>
              ELSE IF t.result = None
              THEN /\ Finish(r, Error("Failed to fetch live matches"))
                   /\ UNCHANGED <<detail, results, order>>
              ELSE IF lm = <<>>
              THEN /\ Finish(r, Success(<<no_game_match>>))
                   /\ UNCHANGED <<detail, results, order>>
              ELSE /\ detail' = [detail EXCEPT ![r] = calls]
                   /\ results' = [results EXCEPT ![r] = res]
                   /\ order' = [order EXCEPT ![r] = ord]
                   /\ IF \E i \in 1..Len(lm) : suspended(calls[i])
                      THEN /\ pc' = [pc EXCEPT ![r] = "gather"]
                           /\ UNCHANGED <<cache, session, agg, response,
                                          direct, lookup>>
                      ELSE Finish(r, assemble(res, ord))
    /\ UNCHANGED <<clock, cacheGhost, probeVars, unitVars, match_id>>

ListingAnswer(r, o, page) == ListingStep(r, o, page) /\ UNCHANGED watchVars

\* the detail attempt in flight of task i is answered; when the last task
\* completes the gather returns and the result is assembled
DetailStep(r, i, o, page) ==
    /\ pc[r] = "gather"
    /\ i \in 1..Len(detail[r])
    /\ detail[r][i].state = "inflight"
    /\ LET t == iteration(detail[r][i], o, page, session)
           calls == [detail[r] EXCEPT ![i] = t]
           res == IF suspended(t) THEN results[r]
                  ELSE [results[r] EXCEPT ![i] =
                           merge_details(@, get_match_details(t))]
           ord == IF suspended(t) THEN order[r] ELSE Append(order[r], i)
       IN  /\ detail' = [detail EXCEPT ![r] = calls]
           /\ results' = [results EXCEPT ![r] = res]
           /\ order' = [order EXCEPT ![r] = ord]
           /\ IF \E j \in 1..Len(calls) : suspended(calls[j])
              THEN UNCHANGED <<cache, session, pc, agg, response,
                               direct, lookup>>
              ELSE Finish(r, assemble(res, ord))
    /\ UNCHANGED <<clock, cacheGhost, probeVars, unitVars, listing,
                   match_id>>

DetailAnswer(r, i, o, page) ==
    DetailStep(r, i, o, page) /\ UNCHANGED watchVars

\* the attempt in flight of _get_match_directly is answered; on the last
\* answer the lookup returns and the handler answers
DirectAnswer(r, o, page) ==
    /\ pc[r] = "direct"
    /\ direct[r].state = "inflight"
    /\ LET t == iteration(direct[r], o, page, session)
       IN  /\ direct' = [direct EXCEPT ![r] = t]
           /\ IF suspended(t)
              THEN UNCHANGED <<session, pc, lookup, response>>
              ELSE Conclude(r, get_match_directly(
                                  t, match_id[r], runtime_error(session)),
                            session)
    /\ UNCHANGED <<clock, cache, cacheGhost, probeVars, sideVars, listing,
                   detail, results, order, agg, match_id>>

\* time passes: long enough for a cache entry to expire
Advance ==
    /\ clock + cache_ttl <= MaxClock
    /\ clock' = clock + cache_ttl
    /\ UNCHANGED <<cache, session, cacheGhost, probeVars, reqVars, sideVars>>

(* =========== SpecFlag, SpecDetail: the extractor on its own =========== *)
NotCalled == [called |-> FALSE]
Called(v) == [called |-> TRUE, value |-> v]

FlagIdle ==
    /\ flagCls = flag_us
    /\ flagRes = NotCalled

ParseIdle ==
    /\ fetched = NoCall
    /\ parsed = NotCalled

\* the class of one flag element goes through the two replacements
ApplyFlag ==
    /\ flagRes = NotCalled
    /\ flagRes' = Called(flag_transform(flagCls))
    /\ UNCHANGED <<clock, cache, session, cacheGhost, probeVars, reqVars,
                   flagCls, parseVars, statVars, watchVars>>

\* _get_match_details runs on the outcome of its fetch
ParseDetail ==
    /\ parsed = NotCalled
    /\ parsed' = Called(get_match_details(fetched))
    /\ UNCHANGED <<clock, cache, session, cacheGhost, probeVars, reqVars,
                   flagVars, fetched, statVars, watchVars>>

(* ================= SpecStats: the request statistics ================== *)
RECURSIVE gcd(_, _)
gcd(a, b) == IF b = 0 THEN a ELSE gcd(b, a % b)
\* the number n / d, d > 0, in lowest terms
Rat(n, d) == LET g == gcd(n, d) IN [num |-> n \div g, den |-> d \div g]

\* performance_stats = {...}: every counter 0
zero_stats ==
    [total_requests |-> 0, successful_requests |-> 0, failed_requests |-> 0,
     average_response_time |-> Rat(0, 1), cache_hits |-> 0, cache_misses |-> 0]

\* async_wrapper up to the await of the wrapped function
track_before(st) == [st EXCEPT !.total_requests = @ + 1]

\* a call that returns is counted as a cache hit as well
track_return_hit(st, execution_time) ==
    LET total_successful == st.successful_requests + 1
        current_avg == st.average_response_time
    IN  [st EXCEPT
            !.successful_requests = total_successful,
            !.cache_hits = @ + 1,
            !.average_response_time =
                Rat(current_avg.num * (total_successful - 1)
                        + execution_time * current_avg.den,
                    current_avg.den * total_successful)]

\* the mean taken over total_requests instead of successful_requests
track_return_total(st, execution_time) ==
    LET total_successful == st.total_requests
        current_avg == st.average_response_time
    IN  [st EXCEPT
            !.successful_requests = @ + 1,
            !.average_response_time =
                Rat(current_avg.num * (total_successful - 1)
                        + execution_time * current_avg.den,
                    current_avg.den * total_successful)]

\* async_wrapper after the wrapped function returned:
\* (current_avg * (total_successful - 1) + execution_time) / total_successful
track_return(st, execution_time) ==
    LET total_successful == st.successful_requests + 1
        current_avg == st.average_response_time
    IN  [st EXCEPT
            !.successful_requests = total_successful,
            !.average_response_time =
                Rat(current_avg.num * (total_successful - 1)
                        + execution_time * current_avg.den,
                    current_avg.den * total_successful)]

\* the failure is re-raised without being counted
track_raise_uncounted(st) == st

\* async_wrapper's except clause, before `raise`
track_raise(st) == [st EXCEPT !.failed_requests = @ + 1]

TrackedCalls == 1..NumCalls

StatsIdle ==
    /\ performance_stats = zero_stats
    /\ tracked = [c \in TrackedCalls |-> "idle"]
    /\ elapsed = 0
    /\ wasReset = FALSE

\* a tracked function is called: the wrapper runs up to its await
TrackStart(c) ==
    /\ tracked[c] = "idle"
    /\ tracked' = [tracked EXCEPT ![c] = "running"]
    /\ performance_stats' = track_before(performance_stats)
    /\ UNCHANGED <<clock, cache, session, cacheGhost, probeVars, reqVars,
                   flagVars, parseVars, elapsed, wasReset,
                   watchVars>>

\* the wrapped function returns after execution_time seconds
TrackReturn(c, execution_time) ==
    /\ tracked[c] = "running"
    /\ tracked' = [tracked EXCEPT ![c] = "returned"]
    /\ performance_stats' = track_return(performance_stats, execution_time)
    /\ elapsed' = elapsed + execution_time
    /\ UNCHANGED <<clock, cache, session, cacheGhost, probeVars, reqVars,
                   flagVars, parseVars, wasReset,
                   watchVars>>

\* the wrapped function raises an Exception, which the wrapper re-raises
TrackRaise(c) ==
    /\ tracked[c] = "running"
    /\ tracked' = [tracked EXCEPT ![c] = "raised"]
    /\ performance_stats' = track_raise(performance_stats)
    /\ UNCHANGED <<clock, cache, session, cacheGhost, probeVars, reqVars,
                   flagVars, parseVars, elapsed, wasReset,
                   watchVars>>

\* reset_performance_stats()
ResetStats ==
    /\ ~wasReset
    /\ performance_stats' = zero_stats
    /\ elapsed' = 0
    /\ wasReset' = TRUE
    /\ UNCHANGED <<clock, cache, session, cacheGhost, probeVars, reqVars,
                   flagVars, parseVars, tracked,
                   watchVars>>

(* ========== SpecWatch: the live requests under observation =========== *)
WatchIdle ==
    /\ tries = 0
    /\ fetches = 0
    /\ fetch_no = [r \in Reqs |-> 0]
    /\ cache_from = 0

\* the _make_request calls of request r: the listing call, then one per task
slots(lst, det, r) == <<lst[r]>> \o det[r]
\* the k-th of them, NoCall while it does not exist
slot(ss, k) == IF k <= Len(ss) THEN ss[k] ELSE NoCall

finished(t) == t.state \in {"done", "raised"}

\* What a step of the live pipeline adds to the observations: a call of
\* request 1 that has left "idle" is one more fetch, a call of request 1
\* that is in session.get with a new attempt number is one more attempt, a
\* listing call that has finished takes the next rank, and the request that
\* has just got its result from the scraper has written the cache.
Watch ==
    LET old == slots(listing, detail, 1)
        new == slots(listing', detail', 1)
        begun == {k \in 1..Len(new) :
                     slot(old, k).state = "idle" /\ new[k].state # "idle"}
        got_called == {k \in 1..Len(new) :
                     /\ new[k].state = "inflight"
                     /\ \/ slot(old, k).state # "inflight"
                        \/ slot(old, k).attempt # new[k].attempt}
        ranked == {n \in 0..NumReqs : \E r \in Reqs : fetch_no[r] = n}
        top == CHOOSE n \in ranked : \A m \in ranked : m <= n
        rank == [r \in Reqs |->
                    IF ~finished(listing[r]) /\ finished(listing'[r])
                    THEN top + 1 ELSE fetch_no[r]]
        writers == {r \in Reqs : /\ agg[r] = None
                                 /\ agg'[r] # None
                                 /\ finished(listing'[r])}
    IN  /\ fetches' = fetches + Cardinality(begun)
        /\ tries' = tries + Cardinality(got_called)
        /\ fetch_no' = rank
        /\ cache_from' = IF writers = {} THEN cache_from
                         ELSE rank[CHOOSE r \in writers : TRUE]

WatchedStart(r) == ArriveStep(r, <<>>) /\ Watch
WatchedListing(r, o, page) == ListingStep(r, o, page) /\ Watch
WatchedDetail(r, i, o, page) == DetailStep(r, i, o, page) /\ Watch

(* ========================== specifications ============================ *)
\* what `await response.text()` can give: a page when the status is 200;
\* with any other outcome no text is read
Bodies(o, pages) == IF o = "200" THEN pages ELSE {None}

InitReqs ==
    /\ pc = [r \in Reqs |-> "idle"]
    /\ listing = [r \in Reqs |-> NoCall]
    /\ detail = [r \in Reqs |-> <<>>]
    /\ results = [r \in Reqs |-> <<>>]
    /\ order = [r \in Reqs |-> <<>>]
    /\ agg = [r \in Reqs |-> None]
    /\ response = [r \in Reqs |-> None]
    /\ match_id = [r \in Reqs |-> <<>>]
    /\ direct = [r \in Reqs |-> NoCall]
    /\ lookup = [r \in Reqs |-> None]

Init ==
    /\ InitCache
    /\ InitFetch
    /\ InitReqs
    /\ FlagIdle
    /\ ParseIdle
    /\ StatsIdle
    /\ WatchIdle

Next ==
    \/ \E r \in Reqs : StartLive(r)
    \/ \E r \in Reqs, o \in Outcomes :
          \E page \in Bodies(o, ListingPages) : ListingAnswer(r, o, page)
    \/ \E r \in Reqs, i \in 1..MaxMatches, o \in Outcomes :
          \E page \in Bodies(o, DetailPages) : DetailAnswer(r, i, o, page)
    \/ Advance

Spec == Init /\ [][Next]_vars

\* the ids asked for: one held by the page of every live match, one held
\* by the page of the second only, one held by none
MatchIds == {<<"5">>, <<"5", "2">>, <<"9", "9">>}

\* In this specification an attempt is answered 200 or 500 (through
\* `iteration` every other failure leads to the same state as 500), the
\* listing rows after the first are well formed, and the clock stands still.
MatchOutcomes == {"200", "500"}
MatchListings ==
    {p \in ListingPages :
        \A i \in 2..Len(p.anchors) : Len(p.anchors[i].teams) = 2}

NextMatch ==
    \/ \E r \in Reqs, id \in MatchIds : StartMatch(r, id)
    \/ \E r \in Reqs, o \in MatchOutcomes :
          \E page \in Bodies(o, MatchListings) : ListingAnswer(r, o, page)
    \/ \E r \in Reqs, i \in 1..MaxMatches, o \in MatchOutcomes :
          \E page \in Bodies(o, DetailPages) : DetailAnswer(r, i, o, page)
    \/ \E r \in Reqs, o \in MatchOutcomes :
          \E page \in Bodies(o, DirectPages) : DirectAnswer(r, o, page)

SpecMatch == Init /\ [][NextMatch]_vars

\* as Next without the passing of time
NextWatch ==
    \/ \E r \in Reqs : WatchedStart(r)
    \/ \E r \in Reqs, o \in Outcomes :
          \E page \in Bodies(o, ListingPages) : WatchedListing(r, o, page)
    \/ \E r \in Reqs, i \in 1..MaxMatches, o \in Outcomes :
          \E page \in Bodies(o, DetailPages) : WatchedDetail(r, i, o, page)

SpecWatch == Init /\ [][NextWatch]_vars

\* The lookups under the assumption that every HTTP attempt ends (the
\* sleeps end within `iteration`): each call in flight is answered in the
\* end.  The listing rows are all live, up to MaxMatches of them for the
\* first request and at most one for the others; the id is held by no live
\* match, so that every lookup goes on to the direct fetch; an attempt
\* answered 200 gives the one detail page, or the one direct page, kept.
FairIds == {<<"9", "9">>}
FairListings(r) ==
    {p \in MatchListings :
        /\ Len(p.anchors) <= (IF r = 1 THEN MaxMatches ELSE 1)
        /\ \A i \in 1..Len(p.anchors) : p.anchors[i].live}
FairDetails == {p \in DetailPages : p.map_tab # <<>>}
FairDirects == {p \in DirectPages : Len(p.team_names) = 2}

ListingEnds(r) ==
    \E o \in MatchOutcomes :
        \E page \in Bodies(o, FairListings(r)) : ListingAnswer(r, o, page)
DetailEnds(r, i) ==
    \E o \in MatchOutcomes :
        \E page \in Bodies(o, FairDetails) : DetailAnswer(r, i, o, page)
DirectEnds(r) ==
    \E o \in MatchOutcomes :
        \E page \in Bodies(o, FairDirects) : DirectAnswer(r, o, page)

NextFair ==
    \/ \E r \in Reqs, id \in FairIds : StartMatch(r, id)
    \/ \E r \in Reqs : ListingEnds(r)
    \/ \E r \in Reqs, i \in 1..MaxMatches : DetailEnds(r, i)
    \/ \E r \in Reqs : DirectEnds(r)

\* while a call is in flight, some call in flight is answered in the end
AttemptEnds ==
    \E r \in Reqs :
        \/ ListingEnds(r)
        \/ \E i \in 1..MaxMatches : DetailEnds(r, i)
        \/ DirectEnds(r)

Fairness == WF_vars(AttemptEnds)

SpecFair == Init /\ [][NextFair]_vars /\ Fairness

NextCache ==
    \/ \E key \in CacheKeys, i \in 1..NumPayloads : CachePut(key, i)
    \/ \E key \in CacheKeys : CacheGet(key)
    \/ Tick

SpecCache == Init /\ [][NextCache]_vars

NextFetch ==
    \/ ProbeEnter
    \/ ProbeExit
    \/ ProbeCall
    \/ \E o \in Outcomes : ProbeAnswer(o)
    \/ ProbeWake

SpecFetch == Init /\ [][NextFetch]_vars

InitFlag ==
    /\ InitCache
    /\ InitFetch
    /\ InitReqs
    /\ ParseIdle
    /\ StatsIdle
    /\ WatchIdle
    /\ flagCls \in FlagClasses
    /\ flagRes = NotCalled

NextFlag == ApplyFlag

SpecFlag == InitFlag /\ [][NextFlag]_vars

InitDetail ==
    /\ InitCache
    /\ InitFetch
    /\ InitReqs
    /\ FlagIdle
    /\ StatsIdle
    /\ WatchIdle
    /\ fetched \in DetailFetches
    /\ parsed = NotCalled

NextDetail == ParseDetail

SpecDetail == InitDetail /\ [][NextDetail]_vars

NextStats ==
    \/ \E c \in TrackedCalls : TrackStart(c)
    \/ \E c \in TrackedCalls, t \in 0..MaxDur : TrackReturn(c, t)
    \/ \E c \in TrackedCalls : TrackRaise(c)
    \/ ResetStats

SpecStats == Init /\ [][NextStats]_vars

\* tracked calls, with reads and writes of the cache in between (entries
\* present are hits, entries absent are misses; the clock stands still)
NextFrame ==
    \/ \E c \in TrackedCalls : TrackStart(c)
    \/ \E c \in TrackedCalls, t \in 0..MaxDur : TrackReturn(c, t)
    \/ \E c \in TrackedCalls : TrackRaise(c)
    \/ ResetStats
    \/ \E key \in CacheKeys, i \in 1..NumPayloads : CachePut(key, i)
    \/ \E key \in CacheKeys : CacheGet(key)

SpecFrame == Init /\ [][NextFrame]_vars

(* ============================== claims ================================ *)
\* request r ran the pipeline itself and its listing fetch gave a page
Scraped(r) ==
    /\ pc[r] = "done"
    /\ listing[r].state = "done"
    /\ listing[r].result # None

\* request r ran the pipeline itself and its listing fetch gave no page
ListingFailed(r) ==
    /\ pc[r] = "done"
    /\ \/ listing[r].state = "raised"
       \/ listing[r].state = "done" /\ listing[r].result = None

\* the cache holds an unexpired entry for "live_matches"
LiveEntryValid ==
    /\ "live_matches" \in DOMAIN cache
    /\ clock - cache["live_matches"].timestamp < 30

PageUrl(a) == base_url \o a.href

\* C1: when the listing fetch of a getLiveMatches call on a cache miss
\* fails, the error result is not stored: the cache holds no valid entry
\* carrying it, and no call is ever answered with an error from the cache.
C1_ErrorNotCached ==
    /\ \A r \in Reqs :
          ListingFailed(r) =>
              ~(LiveEntryValid /\ cache["live_matches"].data = agg[r])
    /\ \A r \in Reqs :
          (pc[r] = "done" /\ listing[r].state = "idle") =>
              agg[r].status # "error"

\* C2: a get made less than 30 seconds after the latest put on its key
\* returns the payload of that put; a get made 30 seconds or more after it,
\* or on a key never put, returns absent.
C2_ReadWithinTTL ==
    got.key # "" =>
        IF got.key \in DOMAIN lastPut /\ clock - lastPut[got.key].at < 30
        THEN got.val = lastPut[got.key].data
        ELSE got.val = None

\* a get 29 seconds after a put that replaced an earlier payload
C2_Witness ==
    /\ got.key \in DOMAIN lastPut
    /\ clock - lastPut[got.key].at = 29
    /\ got.val = Payload(2)

\* C3: a getLiveMatches call made while the cache holds a valid entry for
\* "live_matches" returns the cached payload, starts no fetch (listing or
\* detail) and leaves the cache entry and its timestamp as they were.
C3_HitNoFetch ==
    [][\A r \in Reqs :
          (pc[r] = "idle" /\ pc'[r] # "idle" /\ LiveEntryValid) =>
              /\ pc'[r] = "done"
              /\ agg'[r] = cache["live_matches"].data
              /\ listing'[r] = NoCall
              /\ detail'[r] = <<>>
              /\ cache' = cache]_vars

\* a call answered from the cache with a success payload, no fetch made
C3_Witness ==
    \E r \in Reqs :
        /\ pc[r] = "done"
        /\ listing[r].state = "idle"
        /\ agg[r].status = "success"
        /\ LiveEntryValid
        /\ agg[r] = cache["live_matches"].data

\* C4: one fetch makes at most 3 HTTP attempts, makes no attempt after one
\* answered 200 and returns the body of that one, and returns the failure
\* value only when all 3 attempts were made and none was answered 200.
C4_BoundedAttempts ==
    /\ Len(plog) <= 3
    /\ \A j \in 1..(Len(plog) - 1) : plog[j] # "200"
    /\ (plog # <<>> /\ plog[Len(plog)] = "200") =>
           (probe.state = "done" /\ probe.result = SomeBody)
    /\ (probe.state = "done" /\ probe.result # None) =>
           (plog # <<>> /\ plog[Len(plog)] = "200")
    /\ (probe.state = "done" /\ probe.result = None) =>
           (Len(plog) = 3 /\ \A j \in 1..3 : plog[j] # "200")

\* a body obtained from the third attempt, after a 429 and a timeout
C4_Witness ==
    /\ probe.state = "done"
    /\ probe.result = SomeBody
    /\ plog = <<"429", "timeout", "200">>

\* C5: between attempt k and attempt k+1 the fetch sleeps 2^k seconds in
\* total, whatever made attempt k fail.
C5_UniformBackoff ==
    (probe.state = "sleeping" /\ probe.attempt < 3 - 1) =>
        probe.wait = 2 ^ probe.attempt

\* C6 (as stated): a fetch never raises, whatever happens, a missing or
\* closed session included.
C6_FetchNeverRaises == probe.state # "raised"

\* C6 (amended): a fetch raises only at an attempt it would start on a
\* session that is missing or closed; while the session is open, statuses
\* other than 200, timeouts and connection errors never make it raise.
C6_RaisesOnlyWithoutSession ==
    [][(probe'.state = "raised" /\ probe.state # "raised") =>
          session # "open"]_vars

\* a fetch that raised after a failed attempt: its session was closed
C6_Witness ==
    /\ probe.state = "raised"
    /\ plog # <<>>
    /\ session = "closed"

\* C7: a fetched listing page without live entries gives status "success"
\* and exactly one record, the 19 MatchSummary fields all "" plus
\* klurgecustom = "no game is live", and the route returns it unchanged.
C7_Sentinel ==
    \A r \in Reqs :
        (Scraped(r) /\ \A k \in 1..Len(listing[r].result.anchors) :
                          ~listing[r].result.anchors[k].live) =>
            /\ agg[r].status = "success"
            /\ Len(agg[r].data) = 1
            /\ DOMAIN agg[r].data[1] = MatchSummaryFields \cup {"klurgecustom"}
            /\ Cardinality(MatchSummaryFields) = 19
            /\ \A f \in MatchSummaryFields : agg[r].data[1][f] = ""
            /\ agg[r].data[1]["klurgecustom"] = "no game is live"
            /\ response[r] = agg[r]

\* a page with anchors, none of them live, answered with the sentinel
C7_Witness ==
    \E r \in Reqs :
        /\ Scraped(r)
        /\ Len(listing[r].result.anchors) = 2
        /\ \A k \in 1..2 : ~listing[r].result.anchors[k].live
        /\ response[r] = Success(<<no_game_match>>)

\* C8: when the listing fetch of a request gives no page (exhausted, or an
\* exception), the body of the response has status "error" and a message.
C8_ErrorEnvelope ==
    \A r \in Reqs :
        ListingFailed(r) =>
            /\ response[r].status = "error"
            /\ "message" \in DOMAIN response[r]

\* C9: every live match whose listing row can be extracted (it has its two
\* team elements) is in the final data, whatever happens to the detail
\* fetches and to the other rows of the batch.
C9_NoMatchLost ==
    \A r \in Reqs :
        Scraped(r) =>
            \A k \in 1..Len(listing[r].result.anchors) :
                LET a == listing[r].result.anchors[k]
                IN  (a.live /\ Len(a.teams) >= 2) =>
                        /\ agg[r].status = "success"
                        /\ \E j \in 1..Len(agg[r].data) :
                              agg[r].data[j].match_page = PageUrl(a)

\* two live matches: the row of the first cannot be extracted, the detail
\* fetch of the second is exhausted, and the second is in the data
C9_Witness ==
    \E r \in Reqs :
        /\ Scraped(r)
        /\ Len(detail[r]) = 2
        /\ results[r][1] = EmptyDict
        /\ detail[r][2].state = "done"
        /\ detail[r][2].result = None
        /\ Len(agg[r].data) = 1
        /\ agg[r].data[1].match_page = PageUrl(listing[r].result.anchors[2])

\* C10: the data are the surviving live matches in listing order: every
\* record is a live anchor of the page, and records appear in the order of
\* their anchors, whatever the order in which the tasks completed.
C10_ListingOrder ==
    \A r \in Reqs :
        (Scraped(r) /\ \E k \in 1..Len(listing[r].result.anchors) :
                          listing[r].result.anchors[k].live) =>
            LET anchors == listing[r].result.anchors
                data == agg[r].data
                at(j) == {k \in 1..Len(anchors) :
                            /\ anchors[k].live
                            /\ PageUrl(anchors[k]) = data[j].match_page}
            IN  /\ \A j \in 1..Len(data) : at(j) # {}
                /\ \A i, j \in 1..Len(data) :
                      i < j => \A ki \in at(i), kj \in at(j) : ki < kj

\* two records in listing order although the second task completed first
C10_Witness ==
    \E r \in Reqs :
        /\ Scraped(r)
        /\ order[r] = <<2, 1>>
        /\ Len(agg[r].data) = 2
        /\ agg[r].data[1].match_page = PageUrl(listing[r].result.anchors[1])
        /\ agg[r].data[2].match_page = PageUrl(listing[r].result.anchors[2])

\* C11: in a success result that is not the sentinel, the first record
\* carries the key klurgecustom and the record at position i >= 1 (from 0)
\* the key klurgecustom<i+1>, no record carries another key beside the 19
\* fields, and the value is "{team1} {score1} : {team2} {score2}".
C11_Annotation ==
    \A r \in Reqs :
        (/\ pc[r] = "done"
         /\ agg[r].status = "success"
         /\ agg[r].data # <<>>
         /\ agg[r].data[1]["klurgecustom"] # "no game is live") =>
            \A j \in 1..Len(agg[r].data) :
                LET m == agg[r].data[j]
                    key == IF j = 1 THEN "klurgecustom"
                           ELSE "klurgecustom" \o ToString(j)
                IN  /\ (DOMAIN m) \ MatchSummaryFields = {key}
                    /\ m[key] = m["team1"] \o " " \o m["score1"] \o " : "
                                \o m["team2"] \o " " \o m["score2"]

\* a result of two live matches, the second annotated under klurgecustom2
C11_Witness ==
    \E r \in Reqs :
        /\ Scraped(r)
        /\ Len(agg[r].data) = 2
        /\ "klurgecustom2" \in DOMAIN agg[r].data[2]
        /\ agg[r].data[2]["klurgecustom2"] = "team2a 3 : team2b 4"

\* C20: after the last allowed attempt has failed the fetch returns the
\* failure value without sleeping, whatever the failure, HTTP 429 included.
C20_NoSleepAfterLast ==
    probe.state = "sleeping" => probe.attempt < max_retries - 1

(* ---------------------- claims on the extractor ----------------------- *)
\* the class string `flag mod-us mod-16` of C17
flag_us_16 ==
    <<"f","l","a","g"," ","m","o","d","-","u","s"," ","m","o","d","-","1","6">>

\* C17 as stated: the transform maps `flag mod-us mod-16` to `flag us_`.
C17_FlagFixture ==
    (flagRes.called /\ flagCls = flag_us_16) =>
        flagRes.value = <<"f","l","a","g"," ","u","s","_">>

\* C17 amended: the transform maps `flag mod-us mod-16` to `flagus_` (the
\* blank goes with each removed " mod-"), and what it returns for any class
\* made of "flag" and mod- tokens holds no blank.
C17_FlagNoBlank ==
    flagRes.called =>
        /\ \A k \in 1..Len(flagRes.value) : flagRes.value[k] # " "
        /\ flagCls = flag_us_16 =>
               flagRes.value = <<"f","l","a","g","u","s","_">>

C17_Witness ==
    /\ flagRes.called
    /\ flagCls = flag_us_16
    /\ flagRes.value = <<"f","l","a","g","u","s","_">>

Digits == {"0","1","2","3","4","5","6","7","8","9"}
RECURSIVE LeadingDigits(_)
\* the match of ^\d+ on a text (empty: no match)
LeadingDigits(s) ==
    IF s # <<>> /\ Head(s) \in Digits
    THEN <<Head(s)>> \o LeadingDigits(Tail(s)) ELSE <<>>
\* the text without that match
StripLeadingDigits(s) == SubSeq(s, Len(LeadingDigits(s)) + 1, Len(s))
\* the detail page was fetched and parsed
PageParsed ==
    /\ parsed.called
    /\ fetched.state = "done"
    /\ fetched.result # None

\* C18: on a fetched detail page with an active and live map tab whose text
\* is digits followed by a name, map_number is the digits, current_map the
\* text without them, and the logos of the page are returned; without such
\* a tab both fields are "Unknown".
C18_MapParsed ==
    PageParsed =>
        LET tab == fetched.result.map_tab
            v == parsed.value
        IN  /\ tab = <<>> => v[2] = "Unknown" /\ v[3] = "Unknown"
            /\ (/\ tab # <<>>
                /\ LeadingDigits(tab[1]) # <<>>
                /\ StripLeadingDigits(tab[1]) # <<>>) =>
                   /\ v[3] = Join(LeadingDigits(tab[1]))
                   /\ v[2] = Join(StripLeadingDigits(tab[1]))
                   /\ Len(v[1]) = Len(fetched.result.imgs)

\* C19: a logo is the src itself when the src starts with a scheme, and
\* "https:" followed by the src when it does not.
C19_SchemePrefix ==
    PageParsed =>
        \A k \in 1..Len(parsed.value[1]) :
            LET src == fetched.result.imgs[k]
            IN  parsed.value[1][k] =
                    IF src \in SchemedSrcs THEN src ELSE "https:" \o src

(* ---------------------- claims on the statistics ---------------------- *)
InFlight == Cardinality({c \in TrackedCalls : tracked[c] = "running"})
Count(st) == Cardinality({c \in TrackedCalls : tracked[c] = st})

\* C14: as long as the counters have not been reset, total_requests counts
\* the calls started, successful_requests those that returned and
\* failed_requests those that raised, so successful_requests +
\* failed_requests + the calls in flight = total_requests.
C14_Balance ==
    ~wasReset =>
        /\ performance_stats.total_requests = NumCalls - Count("idle")
        /\ performance_stats.successful_requests = Count("returned")
        /\ performance_stats.failed_requests = Count("raised")
        /\ performance_stats.successful_requests
              + performance_stats.failed_requests + InFlight
            = performance_stats.total_requests

\* calls have returned and raised while another is still in flight
C14_Witness ==
    /\ ~wasReset
    /\ Count("returned") = 1
    /\ Count("raised") = 1
    /\ InFlight = 1
    /\ performance_stats.total_requests = 3

\* C15: after every step average_response_time * successful_requests is
\* the sum of the execution times of the calls that returned (since the
\* counters were last zero), and a step in which a call raises leaves
\* average_response_time as it was.
C15_RunningMean ==
    [][/\ performance_stats'.average_response_time.num
              * performance_stats'.successful_requests
          = elapsed' * performance_stats'.average_response_time.den
       /\ (\E c \in TrackedCalls :
              tracked[c] = "running" /\ tracked'[c] = "raised") =>
             performance_stats'.average_response_time
               = performance_stats.average_response_time]_vars

\* three calls returned after 2, 1 and 1 seconds (mean 4/3), or two
\* returned with a failure in between
C15_Witness ==
    \/ /\ Count("returned") = 3
       /\ elapsed = 4
       /\ performance_stats.average_response_time = [num |-> 4, den |-> 3]
    \/ /\ Count("returned") = 2
       /\ Count("raised") = 1
       /\ performance_stats.average_response_time = [num |-> 3, den |-> 2]

(* --------------------- claims on the match lookup --------------------- *)
\* request r asked for a match and client.get_live_matches() has returned
Looked(r) == match_id[r] # <<>> /\ agg[r] # None

\* the positions of the live records whose match_page holds the id of r
Holders(r) ==
    IF "status" \in DOMAIN agg[r] /\ agg[r].status = "success"
    THEN {k \in 1..Len(agg[r].data) :
             \E i \in 1..(Len(agg[r].data[k].match_page)
                            - Len(match_id[r]) + 1) :
                 SubSeq(agg[r].data[k].match_page, i,
                        i + Len(match_id[r]) - 1) = match_id[r]}
    ELSE {}

\* C12: once the live list is there, a record whose match_page holds the
\* id makes get_match_by_id return {status: "success", data: the first
\* such record} with no direct fetch; the direct fetch of {baseUrl}/{id} is
\* made exactly when no record holds the id or the live lookup failed.
C12_LiveFirst ==
    \A r \in Reqs :
        Looked(r) =>
            /\ (direct[r] # NoCall) <=> (Holders(r) = {})
            /\ (pc[r] = "done" /\ Holders(r) # {}) =>
                   LET k == CHOOSE k \in Holders(r) :
                                \A j \in Holders(r) : k <= j
                   IN  lookup[r] = [status |-> "success",
                                    data |-> agg[r].data[k]]

\* the id 5 is held by both live records: the first is returned
C12_Witness ==
    \E r \in Reqs :
        /\ pc[r] = "done"
        /\ match_id[r] = <<"5">>
        /\ Holders(r) = {1, 2}
        /\ agg[r].data[1] # agg[r].data[2]
        /\ lookup[r] = [status |-> "success", data |-> agg[r].data[1]]
        /\ direct[r] = NoCall

\* C13: GET /matches/{match_id} answers 404 exactly when get_match_by_id
\* reports status "error"; otherwise the answer is the lookup's
\* {status: "success", data} envelope itself.
C13_NotFound ==
    \A r \in Reqs :
        (pc[r] = "done" /\ match_id[r] # <<>>) =>
            IF "status" \in DOMAIN lookup[r] /\ lookup[r].status = "error"
            THEN /\ DOMAIN response[r] = {"status_code", "detail"}
                 /\ response[r].status_code = 404
            ELSE /\ response[r] = lookup[r]
                 /\ DOMAIN lookup[r] = {"status", "data"}
                 /\ lookup[r].status = "success"

\* the id is in no live record and the direct fetch is exhausted: 404
C13_Witness ==
    \E r \in Reqs :
        /\ pc[r] = "done"
        /\ match_id[r] = <<"9", "9">>
        /\ agg[r].status = "success"
        /\ direct[r] = Returned(None)
        /\ response[r] = [status_code |-> 404, detail |-> "Match 99 not found"]

\* {status: "success", data} or {status: "error", message}
IsEnvelope(x) ==
    \/ DOMAIN x = {"status", "data"} /\ x.status = "success"
    \/ DOMAIN x = {"status", "message"} /\ x.status = "error"

\* C16: whatever the fetches and the extraction do, what
\* client.get_live_matches() and client.get_match_by_id() return is an
\* envelope {status: "success", data} or {status: "error", message}; no
\* exception leaves them.
C16_Envelopes ==
    \A r \in Reqs :
        /\ agg[r] # None => IsEnvelope(agg[r])
        /\ pc[r] = "done" => /\ agg[r] # None
                             /\ lookup[r] # None
                             /\ IsEnvelope(lookup[r])

\* the listing fetch and the direct fetch both raised (the session had been
\* closed by another request) and both calls returned error envelopes
C16_Witness ==
    \E r \in Reqs :
        /\ pc[r] = "done"
        /\ listing[r].state = "raised"
        /\ direct[r].state = "raised"
        /\ agg[r] = [status |-> "error", message |-> "Session is closed"]
        /\ lookup[r] = [status |-> "error", message |-> "Session is closed"]

(* ------------------- claims on concurrent requests ------------------- *)
\* the requests whose aggregation missed the cache and is in progress
Aggregating == {r \in Reqs : pc[r] \in {"listing", "gather"}}

\* C24: at any moment at most one aggregation that missed the cache is in
\* progress; two requests never both fetch the listing page.
C24_SingleWriter == Cardinality(Aggregating) <= 1

\* C25: while a request has fetches in flight the session of the client is
\* open, and no fetch of a request raises because another request left the
\* client context.
C25_SessionStaysOpen ==
    \A r \in Reqs :
        /\ r \in Aggregating => session = "open"
        /\ listing[r].state # "raised"
        /\ \A i \in 1..Len(detail[r]) : detail[r][i].state # "raised"

\* C30: a success envelope of get_live_matches has a data list that is not
\* empty: the sentinel alone or at least one live-match record.
C30_DataNotEmpty ==
    \A r \in Reqs :
        (agg[r] # None /\ agg[r].status = "success") => agg[r].data # <<>>

(* ------------------ claims on the statistics, again ------------------- *)
\* C27: successful_requests + failed_requests <= total_requests in every
\* state, also when the counters are reset while calls are in flight.
C27_BoundAcrossReset ==
    performance_stats.successful_requests + performance_stats.failed_requests
        <= performance_stats.total_requests

(* ---------------------- claims on the records ------------------------- *)
HasAllFields(m) == MatchSummaryFields \subseteq DOMAIN m

\* C23: every record in the data of a success envelope (live record,
\* sentinel, record of the direct lookup) has the 19 MatchSummary fields.
C23_AllFields ==
    \A r \in Reqs :
        /\ (agg[r] # None /\ agg[r].status = "success") =>
               \A k \in 1..Len(agg[r].data) : HasAllFields(agg[r].data[k])
        /\ (lookup[r] # None /\ lookup[r].status = "success") =>
               HasAllFields(lookup[r].data)
        /\ "live_matches" \in DOMAIN cache =>
               LET c == cache["live_matches"].data
               IN  c.status = "success" =>
                       \A k \in 1..Len(c.data) : HasAllFields(c.data[k])

\* a live list of one record whose first row was dropped, a sentinel, and
\* a record made by the direct lookup from a page without team names
C23_Witness ==
    \E r, q \in Reqs :
        /\ pc[r] = "done" /\ pc[q] = "done"
        /\ Len(listing[r].result.anchors) = 2
        /\ agg[r].status = "success"
        /\ Len(agg[r].data) = 1
        /\ agg[q].data = <<no_game_match>>
        /\ direct[q].state = "done"
        /\ lookup[q].status = "success"
        /\ lookup[q].data.team1 = "Unknown"

\* C29: the keys of the cache are within {"live_matches"}, and a step of
\* the direct lookup (an answer to the fetch of {baseUrl}/{id}, whether the
\* lookup then succeeds or fails) leaves the cache as it was.
C29_OnlyLiveKey ==
    [][/\ DOMAIN cache' \subseteq {"live_matches"}
       /\ (\E r \in Reqs : pc[r] = "direct" /\ direct'[r] # direct[r]) =>
              cache' = cache]_vars

\* a direct lookup has succeeded and another has failed, and the cache
\* holds the live list under its one key
C29_Witness ==
    \E r, q \in Reqs :
        /\ pc[r] = "done" /\ pc[q] = "done"
        /\ direct[r].state = "done" /\ lookup[r].status = "success"
        /\ direct[q].state = "done" /\ lookup[q].status = "error"
        /\ DOMAIN cache = {"live_matches"}

\* C28: whatever tracked calls, cache hits and cache misses have
\* happened, cache_hits and cache_misses are both 0.
C28_HitsUntouched ==
    /\ performance_stats.cache_hits = 0
    /\ performance_stats.cache_misses = 0

\* calls have returned and raised, and the read just made was a hit
C28_Witness ==
    /\ Count("returned") >= 1
    /\ Count("raised") >= 1
    /\ got.key = "live_matches"
    /\ got.val # None
    /\ performance_stats.successful_requests >= 1
    /\ performance_stats.cache_hits = 0

(* -------------------- claims on the observations --------------------- *)
\* the live matches that request 1 has found on its listing page
Found ==
    IF listing[1].state = "done" /\ listing[1].result # None
    THEN Len(live_matches(listing[1].result)) ELSE 0

\* C21: a get_live_matches call that misses the cache (request 1, the first
\* to arrive) makes one fetch for the listing page and at most one per live
\* match, hence at most 3 * (1 + n) attempts when it finds n live matches,
\* and makes no detail fetch when its listing fetch fails.
C21_NoOuterRetry ==
    /\ tries <= 3 * (1 + Found)
    /\ fetches <= 1 + Found
    /\ pc[1] # "idle" => fetches >= 1
    /\ ListingFailed(1) => fetches = 1 /\ detail[1] = <<>>

\* two live matches, the listing page got at the third attempt and both
\* detail fetches exhausted: 9 attempts in 3 fetches
C21_Witness ==
    /\ pc[1] = "done"
    /\ Found = 2
    /\ fetches = 3
    /\ tries = 9

\* C26: the entry of "live_matches" is only ever replaced by a payload
\* that derives from a listing fetch at least as recent as that of the
\* payload it replaces.
C26_NeverStaler == [][cache_from' >= cache_from]_vars

(* ------------------------ claims on termination ---------------------- *)
\* C22: if every HTTP attempt ends, every request that has arrived gets,
\* in the end, an envelope from get_live_matches and one from
\* get_match_by_id, with none of its fetches left in flight.
C22_Returns ==
    \A r \in Reqs :
        (pc[r] # "idle") ~>
            (/\ pc[r] = "done"
             /\ agg[r] # None /\ IsEnvelope(agg[r])
             /\ lookup[r] # None /\ IsEnvelope(lookup[r])
             /\ ~suspended(listing[r])
             /\ ~suspended(direct[r])
             /\ \A i \in 1..Len(detail[r]) : ~suspended(detail[r][i]))

\* a lookup has returned after its listing page came at the third attempt,
\* the detail fetches of two live matches were exhausted and the direct
\* fetch was exhausted
C22_Witness ==
    \E r \in Reqs :
        /\ pc[r] = "done"
        /\ Len(detail[r]) = 2
        /\ detail[r][1] = Returned(None)
        /\ detail[r][2] = Returned(None)
        /\ direct[r] = Returned(None)
        /\ lookup[r].status = "error"

====
